---- MODULE Spec2Model ----
(***************************************************************************)
(* Bay Area Opportunity Mapper.                                            *)
(*                                                                         *)
(* Two programs are modelled:                                              *)
(*   - streamlit_app.py: the scoring pass that main() runs on every form   *)
(*     submission (calculate_final_score, the display step, and            *)
(*     get_county_boundaries) over the cached region table;                *)
(*   - combine_crime_dfs.py: consolidate_county_data, the per-county CSV   *)
(*     consolidation script.                                               *)
(*                                                                         *)
(* Numbers.  pandas works on floats; the model works on exact rationals    *)
(* held as scaled integers:                                                *)
(*   - a normalized metric n in [0,1] is the integer n * NormScale;        *)
(*   - a slider-normalized weight w / slider_max is the integer            *)
(*     w * WScale / slider_max (WScale is a common multiple of the slider  *)
(*     maxima, so the division is exact);                                  *)
(*   - final_score is held in tenths (80.0 is 800);                        *)
(*   - a missing cell (pandas NaN) is the value NaN.                       *)
(* A ZIP is a five-digit string in the program; it is an integer here, so  *)
(* that "ascending ZIP" can be stated (five-digit strings order the same   *)
(* way as their numbers).                                                  *)
(***************************************************************************)
EXTENDS Integers, Sequences, FiniteSets, TLC

VARIABLES
    gdf,                \* the cached region table returned by load_data()
    max_rent,           \* main's local budget, the call's max_rent
    bedroom_col,        \* main's local selected_bed_col, the call's bedroom_col
    weights,            \* main's local weights
    results,            \* what calculate_final_score returned (main's local)
    county_boundaries,  \* main's local county_boundaries
    pc,                 \* position of main() in the current rerun
    folder_exists,      \* consolidate: os.path.exists(DATA_FOLDER)
    folder,             \* consolidate: os.listdir(DATA_FOLDER)
    all_files,          \* consolidate: the .csv files of the folder
    next_file,          \* consolidate: index of the loop over all_files
    list_of_dfs,        \* consolidate: the frames loaded so far
    log,                \* consolidate: what was printed about each file
    output,             \* consolidate: OUTPUT_FILE as written (or not)
    ipc                 \* consolidate: position of the script

appVars == <<gdf, max_rent, bedroom_col, weights, results, county_boundaries, pc>>
ingestVars == <<folder_exists, folder, all_files, next_file, list_of_dfs, log, output, ipc>>
vars == <<gdf, max_rent, bedroom_col, weights, results, county_boundaries, pc,
          folder_exists, folder, all_files, next_file, list_of_dfs, log, output, ipc>>

----------------------------------------------------------------------------
(* Bounds of the model *)

\* most rows in the region table
MaxRegions == 2
\* resolution of a normalized metric: the values are k / NormScale
NormScale == 10
\* most entries in the data folder
MaxFiles == 3

----------------------------------------------------------------------------
(* Values *)

\* a missing cell of the table (pandas NaN)
NaN == -1
\* a missing COUNTY cell
NoCounty == "<NA>"

\* bedroom_map: the rent columns a user can select
Beds == {"RENT_STUDIO", "RENT_1BD", "RENT_2BD", "RENT_3BD", "RENT_4BD"}

\* 'norm_' + bedroom_col.lower()
NormRentCol(bed) ==
    CASE bed = "RENT_STUDIO" -> "norm_rent_studio"
      [] bed = "RENT_1BD"    -> "norm_rent_1bd"
      [] bed = "RENT_2BD"    -> "norm_rent_2bd"
      [] bed = "RENT_3BD"    -> "norm_rent_3bd"
      [] bed = "RENT_4BD"    -> "norm_rent_4bd"

Criteria == {"rent", "safety_viol", "safety_prop", "transit", "income"}

\* the slider maxima written in calculate_final_score
slider_max ==
    [rent |-> 10, safety_viol |-> 10, safety_prop |-> 10, transit |-> 3, income |-> 10]

\* the slider ranges main() declares (st.slider(label, 0, max, default))
SliderRange == [c \in Criteria |-> 0 .. (IF c = "transit" THEN 3 ELSE 10)]

\* common multiple of the slider maxima: the unit 1/WScale holds w / slider_max
WScale == slider_max["rent"] * slider_max["transit"]

\* the budget slack 1.2, as SlackNum / SlackDen
SlackNum == 12
SlackDen == 10

\* the normalized column a criterion reads, for the selected rent column
MetricCol(c, bed) ==
    CASE c = "rent"        -> NormRentCol(bed)
      [] c = "safety_viol" -> "norm_crime_rate_viol"
      [] c = "safety_prop" -> "norm_crime_rate_prop"
      [] c = "transit"     -> "norm_transit"
      [] c = "income"      -> "norm_income"

NormCols == {MetricCol(c, b) : c \in Criteria, b \in Beds}

----------------------------------------------------------------------------
(* Tables.  A table is [columns, rows]: the set of its column names and    *)
(* the sequence of its rows.  A row carries every field; the fields of a   *)
(* column the table does not have are NaN / <<>>.  A region's geometry is  *)
(* the set of map cells it covers, so that a union of polygons is a union  *)
(* of sets.                                                                *)

BaseColumns == {"ZIP", "geometry"} \cup Beds \cup NormCols

EmptyTable == [columns |-> {}, rows |-> <<>>]

IsEmpty(t) == t.rows = <<>>

ZipsOf(t) == {t.rows[i].ZIP : i \in DOMAIN t.rows}

\* the row of t with the given ZIP (ZIPs are unique in the region table)
RowOf(t, zip) == t.rows[CHOOSE i \in DOMAIN t.rows : t.rows[i].ZIP = zip]

----------------------------------------------------------------------------
(* calculate_final_score *)

\* the mask without the slack: gdf[bedroom_col] <= max_rent
AffordableNoSlack(rent, budget) == rent # NaN /\ rent <= budget

\* the mask with the comparison the wrong way round
AffordableInverted(rent, budget) == rent # NaN /\ rent * SlackDen >= budget * SlackNum

\* gdf[bedroom_col] <= max_rent * 1.2 ; a comparison with NaN is False
Affordable(rent, budget) == rent # NaN /\ rent * SlackDen <= budget * SlackNum

\* gdf[mask].copy(): the kept rows, in table order, as a new table
FilterBudget(g, budget, bed) ==
    LET keep(row) == Affordable(row.rent[bed], budget)
    IN  [columns |-> g.columns, rows |-> SelectSeq(g.rows, keep)]

\* the raw slider value used as the weight
RawWeight(w, c) == w[c] * WScale

\* weights[c] / slider_max[c] if slider_max[c] else 0, in units of 1/WScale
NormWeight(w, c) ==
    IF slider_max[c] # 0 THEN (w[c] * WScale) \div slider_max[c] ELSE 0

\* the sum of the normalized weights, before the zero check
WeightSum(w) ==
    NormWeight(w, "rent") + NormWeight(w, "safety_viol") + NormWeight(w, "safety_prop")
        + NormWeight(w, "transit") + NormWeight(w, "income")

\* total_weight with the transit weight left out of the sum
TotalWeightNoTransit(w) ==
    LET s == NormWeight(w, "rent") + NormWeight(w, "safety_viol")
             + NormWeight(w, "safety_prop") + NormWeight(w, "income")
    IN  IF s = 0 THEN WScale ELSE s

\* total_weight: the sum, or 1 when the sum is 0 (1 is WScale units)
TotalWeight(w) == IF WeightSum(w) = 0 THEN WScale ELSE WeightSum(w)

\* float arithmetic with NaN: a NaN operand gives NaN
Mul(a, x) == IF x = NaN THEN NaN ELSE a * x
Add(x, y) == IF x = NaN \/ y = NaN THEN NaN ELSE x + y

\* the numerator of the weighted average, in units of 1/(WScale * NormScale)
WeightedSum(row, bed, w) ==
    Add(Add(Add(Add(Mul(NormWeight(w, "rent"), row.norm[MetricCol("rent", bed)]),
                    Mul(NormWeight(w, "safety_viol"), row.norm[MetricCol("safety_viol", bed)])),
                Mul(NormWeight(w, "safety_prop"), row.norm[MetricCol("safety_prop", bed)])),
            Mul(NormWeight(w, "transit"), row.norm[MetricCol("transit", bed)])),
        Mul(NormWeight(w, "income"), row.norm[MetricCol("income", bed)]))

\* a / b rounded to the nearest integer, ties to the even one (numpy's round)
RoundHalfEven(a, b) ==
    LET q == a \div b
        r == a % b
    IN  IF 2 * r < b THEN q
        ELSE IF 2 * r > b THEN q + 1
        ELSE IF q % 2 = 0 THEN q ELSE q + 1

\* (sum / total_weight * 100).round(1), in tenths; NaN stays NaN
FinalScore(row, bed, w) ==
    LET n == WeightedSum(row, bed, w)
    IN  IF n = NaN THEN NaN
        ELSE RoundHalfEven(100 * 10 * n, NormScale * TotalWeight(w))

\* filtered_gdf['final_score'] = ... : the column is set on every row
WithScores(t, bed, w) ==
    [columns |-> t.columns \cup {"final_score"},
     rows    |-> [i \in DOMAIN t.rows |->
                    [t.rows[i] EXCEPT !.final_score = FinalScore(t.rows[i], bed, w)]]]

\* a before b in descending order, NaN last (na_position='last')
Before(a, b) == b = NaN \/ (a # NaN /\ a >= b)

Arrangements(n) == {p \in [1 .. n -> 1 .. n] : \A i, j \in 1 .. n : p[i] = p[j] => i = j}

\* sort_values('final_score', ascending=False) with the default, unstable
\* quicksort: every arrangement of the rows that is descending by
\* final_score; the order among equal scores is whatever the sort leaves
SortValues(t) ==
    LET n == Len(t.rows)
    IN  {[columns |-> t.columns, rows |-> [i \in 1 .. n |-> t.rows[p[i]]]] :
            p \in {q \in Arrangements(n) :
                     \A i \in 1 .. n - 1 :
                        Before(t.rows[q[i]].final_score, t.rows[q[i + 1]].final_score)}}

\* the scores written into the caller's table instead of the copy
ScoreInPlace(g, budget, bed, w) ==
    LET filtered == FilterBudget(g, budget, bed)
    IN  IF IsEmpty(filtered)
        THEN {[gdf |-> filtered, returned |-> filtered]}
        ELSE {[gdf |-> WithScores(g, bed, w), returned |-> s] :
                s \in SortValues(WithScores(filtered, bed, w))}

\* calculate_final_score(gdf, max_rent, bedroom_col, weights): the outcomes
\* of one call, each the caller's table after the call and the returned table
calculate_final_score(g, budget, bed, w) ==
    LET filtered == FilterBudget(g, budget, bed)
    IN  IF IsEmpty(filtered)
        THEN {[gdf |-> g, returned |-> filtered]}
        ELSE {[gdf |-> g, returned |-> s] :
                s \in SortValues(WithScores(filtered, bed, w))}

----------------------------------------------------------------------------
(* get_county_boundaries *)

\* the counties of the data, in the (alphabetical) order groupby sorts them
CountyOrder == <<"Alameda", "Marin">>

\* the group keys with the missing key kept as a group (dropna=False)
GroupKeysKeepNA(g) == {g.rows[i].COUNTY : i \in DOMAIN g.rows}

\* the group keys of dissolve(by='COUNTY'): missing keys are dropped
GroupKeys(g) == {g.rows[i].COUNTY : i \in DOMAIN g.rows} \ {NoCounty}

\* one record of the dissolved table: the key, the union of the members'
\* geometries, and the first member's ZIP (aggfunc='first')
Boundary(g, county) ==
    LET members == {i \in DOMAIN g.rows : g.rows[i].COUNTY = county}
        first == CHOOSE i \in members : \A j \in members : i <= j
    IN  [COUNTY   |-> county,
         geometry |-> UNION {g.rows[i].geometry : i \in members},
         ZIP      |-> g.rows[first].ZIP]

\* gdf.dissolve(by='COUNTY').reset_index(): one row per key, sorted by key
Dissolve(g) ==
    LET present(c) == c \in GroupKeys(g)
        keys == SelectSeq(CountyOrder \o <<NoCounty>>, present)
    IN  [i \in DOMAIN keys |-> Boundary(g, keys[i])]

\* get_county_boundaries(gdf): the dissolved table, or None
get_county_boundaries(g) ==
    IF "COUNTY" \in g.columns
    THEN [kind |-> "table", rows |-> Dissolve(g)]
    ELSE [kind |-> "None", rows |-> <<>>]

\* main's local before the assignment
Unset == [kind |-> "unset", rows |-> <<>>]

----------------------------------------------------------------------------
(* The region tables and the form inputs the model runs on *)

Rents(s, a, b, c, d) ==
    [RENT_STUDIO |-> s, RENT_1BD |-> a, RENT_2BD |-> b, RENT_3BD |-> c, RENT_4BD |-> d]

\* t tenths as a normalized value
Tenths(t) == IF t = NaN THEN NaN ELSE (t * NormScale) \div 10

Norms(s, a, b, c, d, viol, prop, transit, income) ==
    [norm_rent_studio |-> Tenths(s), norm_rent_1bd |-> Tenths(a),
     norm_rent_2bd |-> Tenths(b), norm_rent_3bd |-> Tenths(c),
     norm_rent_4bd |-> Tenths(d), norm_crime_rate_viol |-> Tenths(viol),
     norm_crime_rate_prop |-> Tenths(prop), norm_transit |-> Tenths(transit),
     norm_income |-> Tenths(income)]

\* the kinds of region: a cheap one, a dear one, one with no transit value,
\* and one with no county and no rent for some unit sizes
Profiles ==
    { [COUNTY |-> "Alameda", rent |-> Rents(2000, 3000, 3600, 4300, 5000),
       norm |-> Norms(10, 8, 6, 4, 2, 5, 5, 0, 3)],
      [COUNTY |-> "Marin", rent |-> Rents(3000, 4300, 5000, 6000, 7000),
       norm |-> Norms(8, 4, 3, 1, 0, 9, 7, 10, 10)],
      [COUNTY |-> "Alameda", rent |-> Rents(3000, 4200, 4320, 5000, 6000),
       norm |-> Norms(8, 5, 4, 3, 2, 2, 6, NaN, 7)],
      [COUNTY |-> NoCounty, rent |-> Rents(NaN, 3000, 3600, NaN, NaN),
       norm |-> Norms(NaN, 8, 6, NaN, NaN, 5, 5, 0, 3)] }

Zips == {94110, 94501, 94901}

\* a row of the loaded table: no score columns yet
Region(zip, p, hasCounty) ==
    [ZIP |-> zip, COUNTY |-> IF hasCounty THEN p.COUNTY ELSE NoCounty,
     geometry |-> {zip}, rent |-> p.rent, norm |-> p.norm,
     final_score |-> NaN, final_score_str |-> <<>>]

\* the tables load_data() can return: ZIPs unique, any row order, with or
\* without a COUNTY column
Tables ==
    UNION { { [columns |-> BaseColumns \cup (IF hasCounty THEN {"COUNTY"} ELSE {}),
               rows |-> rs] :
                rs \in { r \in UNION {[1 .. n -> {Region(z, p, hasCounty) :
                                                    z \in Zips, p \in Profiles}] :
                                        n \in 0 .. MaxRegions} :
                           \A i, j \in DOMAIN r : r[i].ZIP = r[j].ZIP => i = j } } :
            hasCounty \in BOOLEAN }

\* budgets the slider can give (800 to 10000 in steps of 100)
Budgets == {800, 3500, 3600}

W(rent, viol, prop, transit, income) ==
    [rent |-> rent, safety_viol |-> viol, safety_prop |-> prop,
     transit |-> transit, income |-> income]

\* the slider defaults of main()
DefaultWeights == W(5, 8, 7, 2, 3)

\* weight vectors the sliders can give
WeightChoices ==
    { W(0, 0, 0, 0, 0), W(10, 0, 0, 0, 0), DefaultWeights, W(0, 0, 0, 3, 0),
      W(1, 0, 0, 1, 0), W(10, 10, 10, 3, 10), W(0, 8, 0, 2, 3) }

----------------------------------------------------------------------------
(* main(): one rerun per form submission *)

\* results['final_score_str'] = results['final_score'].apply(f"{str(x)}/100")
WithScoreStr(t) ==
    [columns |-> t.columns \cup {"final_score_str"},
     rows    |-> [i \in DOMAIN t.rows |->
                    [t.rows[i] EXCEPT !.final_score_str = <<t.rows[i].final_score, "/100">>]]]

\* the form is submitted: main() reads the widgets and scores the table
Submit(budget, bed, w) ==
    /\ pc = "idle"
    /\ \E o \in calculate_final_score(gdf, budget, bed, w) :
          /\ gdf' = o.gdf
          /\ results' = o.returned
    /\ max_rent' = budget
    /\ bedroom_col' = bed
    /\ weights' = w
    /\ county_boundaries' = Unset
    /\ pc' = "scored"
    /\ UNCHANGED ingestVars

\* results.empty: the warning is shown instead of the map
Warn ==
    /\ pc = "scored"
    /\ IsEmpty(results)
    /\ pc' = "footer"
    /\ UNCHANGED <<gdf, max_rent, bedroom_col, weights, results, county_boundaries>>
    /\ UNCHANGED ingestVars

\* the map is built and the tooltip column is added to results
Display ==
    /\ pc = "scored"
    /\ ~IsEmpty(results)
    /\ results' = WithScoreStr(results)
    /\ pc' = "mapped"
    /\ UNCHANGED <<gdf, max_rent, bedroom_col, weights, county_boundaries>>
    /\ UNCHANGED ingestVars

\* county_boundaries = get_county_boundaries(gdf), then the map and the
\* top-10 table are rendered
CountyBorders ==
    /\ pc = "mapped"
    /\ county_boundaries' = get_county_boundaries(gdf)
    /\ pc' = "footer"
    /\ UNCHANGED <<gdf, max_rent, bedroom_col, weights, results>>
    /\ UNCHANGED ingestVars

\* the footer is written and main() returns: its locals are gone (they
\* read as in Init until the next rerun sets them), the cached table stays
Return ==
    /\ pc = "footer"
    /\ max_rent' = 3500
    /\ bedroom_col' = "RENT_1BD"
    /\ weights' = DefaultWeights
    /\ results' = EmptyTable
    /\ county_boundaries' = Unset
    /\ pc' = "idle"
    /\ UNCHANGED gdf
    /\ UNCHANGED ingestVars

IngestOff ==
    /\ folder_exists = FALSE
    /\ folder = <<>>
    /\ all_files = <<>>
    /\ next_file = 1
    /\ list_of_dfs = <<>>
    /\ log = <<>>
    /\ output = [written |-> FALSE, columns |-> <<>>, rows |-> <<>>]
    /\ ipc = "off"

Init ==
    /\ gdf \in Tables
    /\ max_rent = 3500
    /\ bedroom_col = "RENT_1BD"
    /\ weights = DefaultWeights
    /\ results = EmptyTable
    /\ county_boundaries = Unset
    /\ pc = "idle"
    /\ IngestOff

Next ==
    \/ \E budget \in Budgets, bed \in Beds, w \in WeightChoices : Submit(budget, bed, w)
    \/ Warn
    \/ Display
    \/ CountyBorders
    \/ Return

Spec == Init /\ [][Next]_vars

----------------------------------------------------------------------------
(* Properties of the scoring pass *)

\* a call has returned a scored table
Scored == pc # "idle" /\ "final_score" \in results.columns

\* the five normalized values the score of a row reads are all present
AllPresent(row, bed) == \A c \in Criteria : row.norm[MetricCol(c, bed)] # NaN

\* the weight vector is within the ranges the sliders declare
ValidWeights(w) == \A c \in Criteria : w[c] \in SliderRange[c]

\* the declared maximum of a criterion's slider
DeclaredMax(c) == CHOOSE m \in SliderRange[c] : \A k \in SliderRange[c] : k <= m

\* r_c = weight_c / declared_max_c, in thirtieths
Frac(w, c) == (w[c] * 30) \div DeclaredMax(c)

\* a normalized value, a missing one counted as 0
OrZero(x) == IF x = NaN THEN 0 ELSE x

\* sum_c r_c * norm_c, in units of 1/(30 * NormScale), missing values as 0
ClaimNum(row, bed, w) ==
    Frac(w, "rent") * OrZero(row.norm[NormRentCol(bed)])
        + Frac(w, "safety_viol") * OrZero(row.norm["norm_crime_rate_viol"])
        + Frac(w, "safety_prop") * OrZero(row.norm["norm_crime_rate_prop"])
        + Frac(w, "transit") * OrZero(row.norm["norm_transit"])
        + Frac(w, "income") * OrZero(row.norm["norm_income"])

\* sum_c r_c, in thirtieths
ClaimDen(w) ==
    Frac(w, "rent") + Frac(w, "safety_viol") + Frac(w, "safety_prop")
        + Frac(w, "transit") + Frac(w, "income")

\* s tenths is 100 * num / den rounded to one decimal place
IsRounded(s, num, den) ==
    LET d == s * den * NormScale - 1000 * num
    IN  2 * d <= den * NormScale /\ -2 * d <= den * NormScale

\* C1: for valid weights, every row whose scored normalized values lie in
\* [0,1] has a final_score in [0, 100]
C1_ScoreInRange ==
    (Scored /\ ValidWeights(weights)) =>
        \A i \in DOMAIN results.rows :
            AllPresent(results.rows[i], bedroom_col) =>
                /\ results.rows[i].final_score >= 0
                /\ results.rows[i].final_score <= 1000

\* C1 witness: a scored region reaches the top of the range, 100.0
C1_Witness ==
    /\ Scored
    /\ \E i \in DOMAIN results.rows :
          /\ AllPresent(results.rows[i], bedroom_col)
          /\ results.rows[i].final_score = 1000

\* C2: with some weight non-zero, every returned region with all scored
\* values present has final_score = 100 * sum(r_c * norm_c) / sum(r_c)
\* rounded to one decimal, r_c the weight as a fraction of its slider's
\* declared maximum and the rent term read from the selected unit size;
\* rent weight 10 of 10 alone with normalized rent 0.8 gives 80.0
C2_ScoreFormula ==
    (Scored /\ ClaimDen(weights) > 0) =>
        \A i \in DOMAIN results.rows :
            LET row == results.rows[i]
            IN  AllPresent(row, bedroom_col) =>
                  /\ row.final_score # NaN
                  /\ IsRounded(row.final_score, ClaimNum(row, bedroom_col, weights),
                               ClaimDen(weights))
                  /\ (/\ weights = W(10, 0, 0, 0, 0)
                      /\ 10 * row.norm[NormRentCol(bedroom_col)] = 8 * NormScale)
                        => row.final_score = 800

\* C2 witness: two sliders of different ranges are both non-zero and the
\* score of a returned region is not a whole number
C2_Witness ==
    /\ Scored
    /\ weights["transit"] > 0
    /\ weights["rent"] > 0
    /\ \E i \in DOMAIN results.rows :
          /\ AllPresent(results.rows[i], bedroom_col)
          /\ results.rows[i].norm["norm_transit"] > 0
          /\ results.rows[i].final_score % 10 # 0

\* C3: with every weight zero, every returned region has final_score 0
C3_AllZeroGivesZero ==
    (Scored /\ \A c \in Criteria : weights[c] = 0) =>
        \A i \in DOMAIN results.rows : results.rows[i].final_score = 0

\* the returned rows are rows of the table, unchanged but for the new columns
SameData(row, g) ==
    /\ row.ZIP \in ZipsOf(g)
    /\ row.COUNTY = RowOf(g, row.ZIP).COUNTY
    /\ row.geometry = RowOf(g, row.ZIP).geometry
    /\ row.rent = RowOf(g, row.ZIP).rent
    /\ row.norm = RowOf(g, row.ZIP).norm

\* C4: the returned regions are exactly the regions of the table whose rent
\* for the selected unit size is <= 1.2 * budget, each once; rent 3000 at
\* budget 3500 is in, rent 4300 at budget 3500 is out
C4_FilterExact ==
    pc = "scored" =>
        /\ ZipsOf(results) =
              {z \in ZipsOf(gdf) :
                  /\ RowOf(gdf, z).rent[bedroom_col] # NaN
                  /\ 10 * RowOf(gdf, z).rent[bedroom_col] <= 12 * max_rent}
        /\ Cardinality(ZipsOf(results)) = Len(results.rows)
        /\ \A i \in DOMAIN results.rows : SameData(results.rows[i], gdf)
        /\ \A z \in ZipsOf(gdf) :
              max_rent = 3500 =>
                /\ RowOf(gdf, z).rent[bedroom_col] = 3000 => z \in ZipsOf(results)
                /\ RowOf(gdf, z).rent[bedroom_col] = 4300 => z \notin ZipsOf(results)

\* C4 witness: at budget 3500 a region at 3000 is returned and a region at
\* 4300 is left out
C4_Witness ==
    /\ pc = "scored"
    /\ max_rent = 3500
    /\ \E z \in ZipsOf(results) : RowOf(gdf, z).rent[bedroom_col] = 3000
    /\ \E z \in ZipsOf(gdf) \ ZipsOf(results) : RowOf(gdf, z).rent[bedroom_col] = 4300

\* C5: the regions returned at the call's budget are among those any call
\* with a larger budget returns, for the same table and unit size
C5_MonotonicInBudget ==
    pc = "scored" =>
        \A b2 \in Budgets :
            b2 > max_rent =>
                \A o \in calculate_final_score(gdf, b2, bedroom_col, weights) :
                    ZipsOf(results) \subseteq ZipsOf(o.returned)

\* C5 witness: a call returned some region and a larger budget returns more
C5_Witness ==
    /\ pc = "scored"
    /\ ~IsEmpty(results)
    /\ \E b2 \in Budgets :
          /\ b2 > max_rent
          /\ \E o \in calculate_final_score(gdf, b2, bedroom_col, weights) :
                ZipsOf(o.returned) # ZipsOf(results)

\* C6: the returned rows are in descending final_score order, equal scores
\* in ascending ZIP order
C6_TieBreakByZip ==
    Scored =>
        \A i, j \in DOMAIN results.rows :
            i < j =>
                \/ results.rows[i].final_score > results.rows[j].final_score
                \/ /\ results.rows[i].final_score = results.rows[j].final_score
                   /\ results.rows[i].ZIP < results.rows[j].ZIP

\* C7: a returned region with a scored value missing has a numeric
\* final_score, the missing metric counted as 0
C7_MissingCountsZero ==
    Scored =>
        \A i \in DOMAIN results.rows :
            LET row == results.rows[i]
            IN  ~AllPresent(row, bedroom_col) =>
                  /\ row.final_score # NaN
                  /\ ClaimDen(weights) > 0 =>
                        IsRounded(row.final_score, ClaimNum(row, bedroom_col, weights),
                                  ClaimDen(weights))

\* the records of the computed boundaries
Boundaries == {county_boundaries.rows[i] : i \in DOMAIN county_boundaries.rows}

\* the county values present in the table
CountiesOf(g) == {g.rows[i].COUNTY : i \in DOMAIN g.rows} \ {NoCounty}

\* C8: one boundary record per county value of the table, covering the
\* geometries of all and only that county's regions; regions without a
\* county are in no record
C8_OneBoundaryPerCounty ==
    pc = "footer" /\ county_boundaries.kind # "unset" =>
        /\ county_boundaries.kind = "None" <=> "COUNTY" \notin gdf.columns
        /\ {r.COUNTY : r \in Boundaries} = CountiesOf(gdf)
        /\ Len(county_boundaries.rows) = Cardinality(CountiesOf(gdf))
        /\ \A r \in Boundaries :
              r.geometry = UNION {gdf.rows[i].geometry :
                                    i \in {k \in DOMAIN gdf.rows : gdf.rows[k].COUNTY = r.COUNTY}}
        /\ \A i \in DOMAIN gdf.rows :
              gdf.rows[i].COUNTY = NoCounty =>
                  \A r \in Boundaries : gdf.rows[i].geometry \cap r.geometry = {}

\* C8 witness: a table with a county column, a region of a county and a
\* region without one, dissolved into a single boundary
C8_Witness ==
    /\ pc = "footer"
    /\ county_boundaries.kind = "table"
    /\ Len(county_boundaries.rows) = 1
    /\ \E i \in DOMAIN gdf.rows : gdf.rows[i].COUNTY = NoCounty

\* C10: no step of a rerun changes the cached table
C10_TableUnchanged == [][gdf' = gdf]_vars

\* C10 witness: a rerun has scored, added final_score_str to the results
\* and dissolved the counties, and the cached table has no score column
C10_Witness ==
    /\ pc = "footer"
    /\ "final_score_str" \in results.columns
    /\ county_boundaries.kind = "table"
    /\ gdf.columns \cap {"final_score", "final_score_str"} = {}
    /\ Len(results.rows) < Len(gdf.rows)

----------------------------------------------------------------------------
(* consolidate_county_data (combine_crime_dfs.py)                          *)
(*                                                                         *)
(* A folder entry is [name, tokens, csv, content]: the file name, the      *)
(* words left of it after 'crime_' and '.csv' are removed and '_' is       *)
(* turned into a space, whether the name ends in '.csv', and what          *)
(* pd.read_csv does with it: "table" (a county crime table), "other" (a    *)
(* readable CSV with other columns) or "unreadable" (read_csv raises).     *)
(* A frame is [columns, rows], columns a sequence of names.                *)

\* the number of county files the script expects
ExpectedFiles == 9

FileNames ==
    { [name |-> "crime_alameda.csv", tokens |-> <<"alameda">>, csv |-> TRUE],
      [name |-> "crime_santa_clara.csv", tokens |-> <<"santa", "clara">>, csv |-> TRUE],
      [name |-> "crime_county_marin.csv", tokens |-> <<"county", "marin">>, csv |-> TRUE],
      [name |-> "notes.txt", tokens |-> <<"notes.txt">>, csv |-> FALSE] }

Contents == {"table", "other", "unreadable"}

Entries ==
    {[name |-> f.name, tokens |-> f.tokens, csv |-> f.csv, content |-> c] :
        f \in FileNames, c \in Contents}

\* the listings os.listdir can return: distinct names, any order
Listings ==
    {l \in UNION {[1 .. n -> Entries] : n \in 0 .. MaxFiles} :
        \A i, j \in DOMAIN l : l[i].name = l[j].name => i = j}

\* str.title() on the words the file names are made of
Title(word) ==
    CASE word = "alameda" -> "Alameda"
      [] word = "santa"   -> "Santa"
      [] word = "clara"   -> "Clara"
      [] word = "county"  -> "County"
      [] word = "marin"   -> "Marin"
      [] OTHER            -> word

\* df['COUNTY'].str.split().str[1]: the second word of the title-cased
\* name, missing when the name has one word
CountyOfFile(f) == IF Len(f.tokens) >= 2 THEN Title(f.tokens[2]) ELSE NoCounty

\* pd.read_csv(filepath) raises
ReadFails(f) == f.content = "unreadable"

\* the frame of a file that loads, with the COUNTY column added
ReadCsv(f) ==
    [columns |-> (IF f.content = "table" THEN <<"Unnamed: 0", "2020", "2024">>
                  ELSE <<"Offense", "Count">>) \o <<"COUNTY">>,
     rows    |-> <<[source |-> f.name, COUNTY |-> CountyOfFile(f)]>>]

\* the columns of a after those of b that a does not have yet
RECURSIVE JoinColumns(_, _)
JoinColumns(a, b) ==
    IF b = <<>> THEN a
    ELSE LET has(c) == c = Head(b)
         IN  JoinColumns(IF SelectSeq(a, has) = <<>> THEN Append(a, Head(b)) ELSE a, Tail(b))

\* pd.concat(list_of_dfs, ignore_index=True): the rows one frame after the
\* other, the columns in order of first appearance
RECURSIVE Concat(_)
Concat(dfs) ==
    IF dfs = <<>> THEN [columns |-> <<>>, rows |-> <<>>]
    ELSE LET rest == Concat(Tail(dfs))
         IN  [columns |-> JoinColumns(Head(dfs).columns, rest.columns),
              rows    |-> Head(dfs).rows \o rest.rows]

\* rename(columns={combined_df.columns[0]: 'CRIME_CATEGORY'})
RenameFirst(df) ==
    [columns |-> <<"CRIME_CATEGORY">> \o Tail(df.columns), rows |-> df.rows]

NotWritten == [written |-> FALSE, columns |-> <<>>, rows |-> <<>>]

\* the loop stopped at the first file that fails
AbortOnError(i) == [ipc |-> "done", next_file |-> i]

\* the except branch: the error is printed and the loop goes on
AfterLoadError(i) == [ipc |-> "loop", next_file |-> i + 1]

\* the data folder does not exist: the error is printed, the script returns
FolderMissing ==
    /\ ipc = "start"
    /\ ~folder_exists
    /\ log' = Append(log, <<"folder not found", "">>)
    /\ ipc' = "done"
    /\ UNCHANGED <<folder_exists, folder, all_files, next_file, list_of_dfs, output>>
    /\ UNCHANGED appVars

\* [f for f in os.listdir(DATA_FOLDER) if f.endswith('.csv')]
CsvFiles(l) == LET isCsv(f) == f.csv IN SelectSeq(l, isCsv)

\* the folder holds no .csv file: the script halts
NoCsvFiles ==
    /\ ipc = "start"
    /\ folder_exists
    /\ CsvFiles(folder) = <<>>
    /\ all_files' = <<>>
    /\ log' = log \o <<<<"warning: fewer files than expected", "">>,
                       <<"no csv files", "">>>>
    /\ ipc' = "done"
    /\ UNCHANGED <<folder_exists, folder, next_file, list_of_dfs, output>>
    /\ UNCHANGED appVars

\* the files are listed and the loop over them starts
ListFiles ==
    /\ ipc = "start"
    /\ folder_exists
    /\ CsvFiles(folder) # <<>>
    /\ all_files' = CsvFiles(folder)
    /\ log' = IF Len(CsvFiles(folder)) < ExpectedFiles
              THEN Append(log, <<"warning: fewer files than expected", "">>)
              ELSE log
    /\ next_file' = 1
    /\ ipc' = "loop"
    /\ UNCHANGED <<folder_exists, folder, list_of_dfs, output>>
    /\ UNCHANGED appVars

\* one turn of the loop, the file loads
LoadFile ==
    /\ ipc = "loop"
    /\ next_file <= Len(all_files)
    /\ ~ReadFails(all_files[next_file])
    /\ list_of_dfs' = Append(list_of_dfs, ReadCsv(all_files[next_file]))
    /\ log' = Append(log, <<"loaded", all_files[next_file].name>>)
    /\ next_file' = next_file + 1
    /\ UNCHANGED <<folder_exists, folder, all_files, output, ipc>>
    /\ UNCHANGED appVars

\* one turn of the loop, the file raises
LoadError ==
    /\ ipc = "loop"
    /\ next_file <= Len(all_files)
    /\ ReadFails(all_files[next_file])
    /\ log' = Append(log, <<"error loading", all_files[next_file].name>>)
    /\ ipc' = AfterLoadError(next_file).ipc
    /\ next_file' = AfterLoadError(next_file).next_file
    /\ UNCHANGED <<folder_exists, folder, all_files, list_of_dfs, output>>
    /\ UNCHANGED appVars

\* nothing was loaded: the script halts
NoData ==
    /\ ipc = "loop"
    /\ next_file > Len(all_files)
    /\ list_of_dfs = <<>>
    /\ log' = Append(log, <<"could not load any data", "">>)
    /\ ipc' = "done"
    /\ UNCHANGED <<folder_exists, folder, all_files, next_file, list_of_dfs, output>>
    /\ UNCHANGED appVars

\* the frames are combined, the first column renamed, the file written
Save ==
    /\ ipc = "loop"
    /\ next_file > Len(all_files)
    /\ list_of_dfs # <<>>
    /\ output' = [written |-> TRUE,
                  columns |-> RenameFirst(Concat(list_of_dfs)).columns,
                  rows    |-> RenameFirst(Concat(list_of_dfs)).rows]
    /\ log' = Append(log, <<"saved", "">>)
    /\ ipc' = "done"
    /\ UNCHANGED <<folder_exists, folder, all_files, next_file, list_of_dfs>>
    /\ UNCHANGED appVars

InitIngest ==
    /\ folder_exists \in BOOLEAN
    /\ folder \in (IF folder_exists THEN Listings ELSE {<<>>})
    /\ all_files = <<>>
    /\ next_file = 1
    /\ list_of_dfs = <<>>
    /\ log = <<>>
    /\ output = NotWritten
    /\ ipc = "start"
    /\ gdf = EmptyTable
    /\ max_rent = 3500
    /\ bedroom_col = "RENT_1BD"
    /\ weights = DefaultWeights
    /\ results = EmptyTable
    /\ county_boundaries = Unset
    /\ pc = "off"

NextIngest ==
    \/ FolderMissing
    \/ NoCsvFiles
    \/ ListFiles
    \/ LoadFile
    \/ LoadError
    \/ NoData
    \/ Save

SpecIngest == InitIngest /\ [][NextIngest]_vars

----------------------------------------------------------------------------
(* Properties of the consolidation *)

\* the .csv files of the folder that fail to load
FailedFiles == {folder[i].name : i \in {k \in DOMAIN folder : folder[k].csv /\ ReadFails(folder[k])}}

\* the .csv files of the folder that load
LoadedFiles == {folder[i].name : i \in {k \in DOMAIN folder : folder[k].csv /\ ~ReadFails(folder[k])}}

\* the files the written table has rows of
WrittenSources == {output.rows[i].source : i \in DOMAIN output.rows}

\* the files an error was printed for
ReportedFiles == {log[i][2] : i \in {k \in DOMAIN log : log[k][1] = "error loading"}}

====
